---- MODULE Spec2Model ----
(***************************************************************************)
(* Model of the AiChemy response protocol (apps/app/utils.py), of the chat *)
(* session of apps/app/app.py and of the approval flow of                  *)
(* apps/app/demo_streamlit.py.                                             *)
(*                                                                         *)
(* A text is a sequence of lexemes.  A lexeme is a maximal piece of the    *)
(* Python string that the regular expressions of utils.py treat as a unit: *)
(* a whole tag literal, a single "<", a white-space character, or a word   *)
(* (a run of characters without "<", without a double quote and without    *)
(* leading or trailing white space).  Two halves of a tag literal          *)
(* ("<func" and "tion_calls>") are lexemes of their own, so that a tag can *)
(* come into being when the string between its halves is removed.          *)
(***************************************************************************)
EXTENDS Integers, Sequences, FiniteSets, TLC

\* ------------------------------------------------------------------------
\* Lexemes
\* ------------------------------------------------------------------------
FO == "<function_calls>"
FC == "</function_calls>"
TO == "<thinking>"
TC == "</thinking>"
IC == "</invoke>"
PC == "</parameter>"
LT == "<"
SP == " "
NL == "\n"

\* <invoke name="..."> opening tags and the name each one carries
InvokeOpen == {"<invoke name=\"search\">", "<invoke name=\"f\">", "<invoke name=\"g\">"}

InvokeName(tok) ==
    CASE tok = "<invoke name=\"search\">" -> "search"
      [] tok = "<invoke name=\"f\">" -> "f"
      [] tok = "<invoke name=\"g\">" -> "g"

\* <parameter name="..."> opening tags and the name each one carries
ParamOpen == {"<parameter name=\"q\">", "<parameter name=\"a\">", "<parameter name=\"b\">"}

ParamName(tok) ==
    CASE tok = "<parameter name=\"q\">" -> "q"
      [] tok = "<parameter name=\"a\">" -> "a"
      [] tok = "<parameter name=\"b\">" -> "b"

\* the two halves of the opening container tag and of the opening reasoning tag
FO1 == "<func"
FO2 == "tion_calls>"
TO1 == "<thin"
TO2 == "king>"

\* \s of the re module
IsSpace(c) == c \in {SP, NL}

\* lexemes whose spelling contains the character "<"
HasLt(c) == c \in ({FO, FC, TO, TC, IC, PC, LT, FO1, TO1} \cup InvokeOpen \cup ParamOpen)

\* None of Python: a value that is equal to no text
None == <<"None">>

\* ------------------------------------------------------------------------
\* Python strings as lexeme sequences
\* ------------------------------------------------------------------------
\* The lexeme sequence of a string: adjacent halves of a tag are the tag.
RECURSIVE Lex(_)
Lex(s) ==
    IF Len(s) < 2 THEN s
    ELSE IF s[1] = FO1 /\ s[2] = FO2 THEN <<FO>> \o Lex(SubSeq(s, 3, Len(s)))
    ELSE IF s[1] = TO1 /\ s[2] = TO2 THEN <<TO>> \o Lex(SubSeq(s, 3, Len(s)))
    ELSE <<s[1]>> \o Lex(Tail(s))

\* str.strip(): drop leading and trailing white space
RECURSIVE lstrip(_)
lstrip(s) == IF s # <<>> /\ IsSpace(s[1]) THEN lstrip(Tail(s)) ELSE s

RECURSIVE rstrip(_)
rstrip(s) == IF s # <<>> /\ IsSpace(s[Len(s)]) THEN rstrip(SubSeq(s, 1, Len(s) - 1)) ELSE s

strip(s) == rstrip(lstrip(s))

\* first index i >= from with s[i] in toks, 0 when there is none
RECURSIVE Find(_, _, _)
Find(s, toks, from) ==
    IF from > Len(s) THEN 0
    ELSE IF s[from] \in toks THEN from
    ELSE Find(s, toks, from + 1)

\* the same scan, but an opening tag without closing tag matches up to the
\* end of the text
RECURSIVE lazy_spans_eof(_, _, _, _)
lazy_spans_eof(s, opens, close, from) ==
    LET i == Find(s, opens, from)
        j == IF i = 0 THEN 0 ELSE Find(s, {close}, i + 1)
    IN  IF i = 0 THEN <<>>
        ELSE IF j = 0 THEN <<(<<i, Len(s) + 1>>)>>
        ELSE <<(<<i, j>>)>> \o lazy_spans_eof(s, opens, close, j + 1)

\* the same scan with a greedy .* : a match runs to the last closing tag
RECURSIVE lazy_spans_greedy(_, _, _, _)
lazy_spans_greedy(s, opens, close, from) ==
    LET i == Find(s, opens, from)
        closers == {n \in (i + 1)..Len(s) : s[n] = close}
    IN  IF i = 0 \/ closers = {} THEN <<>>
        ELSE <<(<<i, CHOOSE n \in closers : \A m \in closers : m <= n>>)>>

\* re: OPEN \s*(.*?)\s* CLOSE with DOTALL, scanned left to right from `from`.
\* The spans <<i, j>> of the non-overlapping matches: i is the index of the
\* first opening tag at or after the scan position, j the index of the first
\* closing tag after i; the scan resumes after j.
RECURSIVE lazy_spans(_, _, _, _)
lazy_spans(s, opens, close, from) ==
    LET i == Find(s, opens, from)
        j == IF i = 0 THEN 0 ELSE Find(s, {close}, i + 1)
    IN  IF i = 0 \/ j = 0 THEN <<>>
        ELSE <<(<<i, j>>)>> \o lazy_spans(s, opens, close, j + 1)

\* group 1 of such a match: the text between the tags without the white
\* space that the two \s* take
group(s, span) == strip(SubSeq(s, span[1] + 1, span[2] - 1))

\* re.sub(pattern, '', s): the string without the matched spans
RECURSIVE cut(_, _, _)
cut(s, spans, from) ==
    IF spans = <<>> THEN SubSeq(s, from, Len(s))
    ELSE SubSeq(s, from, Head(spans)[1] - 1) \o cut(s, Tail(spans), Head(spans)[2] + 1)

\* ------------------------------------------------------------------------
\* utils.py: extract_text_content
\* ------------------------------------------------------------------------
\* An output item and a content element are dicts, modelled as records whose
\* domain holds the keys that are present.  The outcome is [raised, value]:
\* raised when "content" is absent (subscript of None) or empty (index out
\* of range).
Raised == [raised |-> TRUE, value |-> <<>>]

Returned(v) == [raised |-> FALSE, value |-> v]

\* dict.get(key)
get(d, key) == IF key \in DOMAIN d THEN d[key] ELSE None

\* x in list, compared with the last element only
In_last(x, list) == list # <<>> /\ list[Len(list)] = x

\* x in list
In(x, list) == \E n \in 1..Len(list) : list[n] = x

RECURSIVE extract_loop(_, _, _)
extract_loop(output, n, text_contents) ==
    IF n > Len(output) THEN Returned(text_contents)
    ELSE LET output_item == output[n] IN
         IF get(output_item, "type") = <<"message">>
         THEN IF "content" \notin DOMAIN output_item \/ output_item.content = <<>>
              THEN Raised
              ELSE LET new_text == get(output_item.content[1], "text") IN
                   IF ~In(new_text, text_contents)
                   THEN extract_loop(output, n + 1, Append(text_contents, new_text))
                   ELSE extract_loop(output, n + 1, text_contents)
         ELSE extract_loop(output, n + 1, text_contents)

extract_text_content(response_json) == extract_loop(response_json, 1, <<>>)

\* ------------------------------------------------------------------------
\* utils.py: parse_tool_calls
\* ------------------------------------------------------------------------
\* re.findall(function_calls_pattern, text_content, re.DOTALL)
function_calls_blocks(text_content) ==
    LET spans == lazy_spans(text_content, {FO}, FC, 1)
    IN  [k \in 1..Len(spans) |-> group(text_content, spans[k])]

\* re.findall(thinking_pattern, text_content, re.DOTALL)
thinking_blocks(text_content) ==
    LET spans == lazy_spans(text_content, {TO}, TC, 1)
    IN  [k \in 1..Len(spans) |-> group(text_content, spans[k])]

\* re.findall(invoke_pattern, block, re.DOTALL): pairs <<function_name, params_block>>
invokes(block) ==
    LET spans == lazy_spans(block, InvokeOpen, IC, 1)
    IN  [k \in 1..Len(spans) |-> <<InvokeName(block[spans[k][1]]), group(block, spans[k])>>]

\* first index i >= from of a lexeme that contains "<", 0 when there is none
RECURSIVE FindLt(_, _)
FindLt(s, from) ==
    IF from > Len(s) THEN 0
    ELSE IF HasLt(s[from]) THEN from
    ELSE FindLt(s, from + 1)

\* the same scan, but a value that runs into a "<" is cut there and kept
RECURSIVE params_truncating(_, _)
params_truncating(params_block, from) ==
    LET i == Find(params_block, ParamOpen, from)
        j == IF i = 0 THEN 0 ELSE FindLt(params_block, i + 1)
        k == IF i = 0 THEN 0 ELSE Find(params_block, {PC}, i + 1)
    IN  IF i = 0 THEN <<>>
        ELSE IF j # 0 /\ k # 0
             THEN <<(<<ParamName(params_block[i]), SubSeq(params_block, i + 1, j - 1)>>)>>
                  \o params_truncating(params_block, k + 1)
             ELSE params_truncating(params_block, i + 1)

\* re.findall(param_pattern, params_block): pairs <<param_name, param_value>>.
\* [^<]* runs to the next "<"; the match needs "</parameter>" right there,
\* otherwise there is no match at this opening tag and the scan moves on.
RECURSIVE params(_, _)
params(params_block, from) ==
    LET i == Find(params_block, ParamOpen, from)
        j == IF i = 0 THEN 0 ELSE FindLt(params_block, i + 1)
    IN  IF i = 0 THEN <<>>
        ELSE IF j # 0 /\ params_block[j] = PC
             THEN <<(<<ParamName(params_block[i]), SubSeq(params_block, i + 1, j - 1)>>)>>
                  \o params(params_block, j + 1)
             ELSE params(params_block, i + 1)

\* a dict that keeps the value a key got first
dict_set_first(d, k, v) ==
    IF \E n \in 1..Len(d) : d[n][1] = k THEN d ELSE Append(d, <<k, v>>)

\* d[k] = v of a dict, kept as the sequence of its items in insertion order
dict_set(d, k, v) ==
    IF \E n \in 1..Len(d) : d[n][1] = k
    THEN [n \in 1..Len(d) |-> IF d[n][1] = k THEN <<k, v>> ELSE d[n]]
    ELSE Append(d, <<k, v>>)

\* {param_name: param_value.strip() for param_name, param_value in params}
RECURSIVE parameters(_, _)
parameters(ps, d) ==
    IF ps = <<>> THEN d
    ELSE parameters(Tail(ps), dict_set(d, Head(ps)[1], strip(Head(ps)[2])))

\* the inner loop: one record per invoke of a block
invoke_records(block) ==
    LET invs == invokes(block)
    IN  [k \in 1..Len(invs) |->
            [function_name |-> invs[k][1],
             parameters |-> parameters(params(invs[k][2], 1), <<>>),
             thinking |-> None]]

\* the outer loop over the function_calls blocks
RECURSIVE block_records(_)
block_records(blocks) ==
    IF blocks = <<>> THEN <<>>
    ELSE invoke_records(Head(blocks)) \o block_records(Tail(blocks))

\* the same loop, but the last reasoning block is carried on to the records after it
RECURSIVE associate_carry(_, _, _)
associate_carry(tool_calls, blocks, i) ==
    IF i > Len(tool_calls) \/ blocks = <<>> THEN tool_calls
    ELSE associate_carry(
            [tool_calls EXCEPT ![i].thinking = strip(blocks[IF i <= Len(blocks) THEN i ELSE Len(blocks)])],
            blocks, i + 1)

\* for i, thinking in enumerate(thinking_blocks): if i < len(tool_calls): ...
RECURSIVE associate(_, _, _)
associate(tool_calls, blocks, i) ==
    IF i > Len(blocks) THEN tool_calls
    ELSE IF i <= Len(tool_calls)
         THEN associate([tool_calls EXCEPT ![i].thinking = strip(blocks[i])], blocks, i + 1)
         ELSE associate(tool_calls, blocks, i + 1)

parse_tool_calls(text_content) ==
    associate(block_records(function_calls_blocks(text_content)),
              thinking_blocks(text_content), 1)

\* ------------------------------------------------------------------------
\* utils.py: strip_tool_call_tags
\* ------------------------------------------------------------------------
\* re.sub(r'<function_calls>\s*.*?\s*</function_calls>', '', text_content, flags=re.DOTALL)
remove_function_calls(text_content) ==
    Lex(cut(text_content, lazy_spans(text_content, {FO}, FC, 1), 1))

\* only the reasoning tags are removed, what they enclose is kept
remove_thinking_tags_only(text_content) ==
    Lex(SelectSeq(text_content, LAMBDA c : c \notin {TO, TC}))

\* re.sub(r'<thinking>\s*.*?\s*</thinking>', '', text_content, flags=re.DOTALL)
remove_thinking(text_content) ==
    Lex(cut(text_content, lazy_spans(text_content, {TO}, TC, 1), 1))

\* end of the maximal white-space run that starts at index i
RECURSIVE RunEnd(_, _)
RunEnd(s, i) == IF i < Len(s) /\ IsSpace(s[i + 1]) THEN RunEnd(s, i + 1) ELSE i

\* the indices of the newlines in s[i..j]
Newlines(s, i, j) == {n \in i..j : s[n] = NL}

Max(S) == CHOOSE n \in S : \A m \in S : m <= n

\* the same substitution for the pattern \n\s*\n+ : two newlines are enough
RECURSIVE collapse_newlines_two(_, _)
collapse_newlines_two(s, i) ==
    IF i > Len(s) THEN <<>>
    ELSE IF s[i] = NL /\ Cardinality(Newlines(s, i, RunEnd(s, i))) >= 2
         THEN <<NL, NL>> \o collapse_newlines_two(s, Max(Newlines(s, i, RunEnd(s, i))) + 1)
         ELSE <<s[i]>> \o collapse_newlines_two(s, i + 1)

\* re.sub(r'\n\s*\n\s*\n+', '\n\n', text_content): a match starts at a newline
\* whose white-space run holds at least three newlines and ends at the last
\* newline of that run.
RECURSIVE collapse_newlines(_, _)
collapse_newlines(s, i) ==
    IF i > Len(s) THEN <<>>
    ELSE IF s[i] = NL /\ Cardinality(Newlines(s, i, RunEnd(s, i))) >= 3
         THEN <<NL, NL>> \o collapse_newlines(s, Max(Newlines(s, i, RunEnd(s, i))) + 1)
         ELSE <<s[i]>> \o collapse_newlines(s, i + 1)

strip_tool_call_tags(text_content) ==
    strip(collapse_newlines(remove_thinking(remove_function_calls(text_content)), 1))

\* ------------------------------------------------------------------------
\* State
\* ------------------------------------------------------------------------
VARIABLES
    response_json,   \* the "output" list of the envelope given to extract_text_content
    text_contents,   \* its outcome
    xpc,             \* "input" before the call of extract_text_content, "done" after;
                     \* in app.py, "input" again when the transport call raised
    text,            \* the message text given to parse_tool_calls and strip_tool_call_tags
    parsed,          \* parse_tool_calls(text)
    cleaned_text,    \* strip_tool_call_tags(text)
    recleaned,       \* strip_tool_call_tags(cleaned_text)
    tpc,             \* "input", "parsed", "stripped", "restripped"
    thread_id,             \* st.session_state.thread_id, the n-th identifier minted
    messages,              \* st.session_state.messages, as records [role, content]
    tool_calls,            \* st.session_state.tool_calls
    prompts_w_tools,       \* st.session_state.prompts_w_tools
    is_processing,         \* st.session_state.is_processing
    last_processed_input,  \* st.session_state.last_processed_input
    stop,                  \* st.session_state.stop
    spc,             \* where the script run of app.py is: "idle" (no run), "calling"
                     \* (inside ask_agent_mlflowclient), "interrupted" (stopped for a
                     \* rerun), "raised" (no run, the page of a run that raised),
                     \* "stopping" (after the callback of the Stop button)
    input_dict,      \* the input of the run that is inside the transport call
    rerun_request,   \* the widget event that arrived while a run was under way
    calls,           \* number of calls of ask_agent_mlflowclient so far
    event,           \* the widget event the last script run was started for
    accepted,        \* whether the guard of the processing block let the last run in
    state,           \* demo_streamlit.py: st.session_state.state
    current_query,   \* st.session_state.current_query
    trigger_query,   \* st.session_state.trigger_query
    auto_approve,    \* st.session_state.auto_approve
    agent_steps,     \* st.session_state.agent_steps
    demo_messages,   \* st.session_state.messages of demo_streamlit.py
    steps,           \* the local list steps of the executing branch
    dpc,             \* where the script run of demo_streamlit.py is: "rest" (no run),
                     \* "branch" (at the loop of the executing branch), "running" (after
                     \* line 242), "completed" (after line 248)
    demo_request,    \* the widget event that arrived while the executing branch was running
    demo_event       \* the widget event the last script run was started for

vars ==
    <<response_json, text_contents, xpc, text, parsed, cleaned_text, recleaned, tpc,
      thread_id, messages, tool_calls, prompts_w_tools, is_processing, last_processed_input,
      stop, spc, input_dict, rerun_request, calls, event, accepted,
      state, current_query, trigger_query, auto_approve, agent_steps, demo_messages,
      steps, dpc, demo_request, demo_event>>

extract_vars == <<response_json, text_contents, xpc>>

text_vars == <<text, parsed, cleaned_text, recleaned, tpc>>

session_vars ==
    <<thread_id, messages, tool_calls, prompts_w_tools, is_processing, last_processed_input,
      stop, spc, input_dict, rerun_request, calls, event, accepted>>

demo_vars ==
    <<state, current_query, trigger_query, auto_approve, agent_steps, demo_messages,
      steps, dpc, demo_request, demo_event>>

\* ------------------------------------------------------------------------
\* Bounded inputs
\* ------------------------------------------------------------------------
\* all sequences of at most n elements of S
RECURSIVE SeqsUpTo(_, _)
SeqsUpTo(S, n) ==
    IF n = 0 THEN {<<>>}
    ELSE LET shorter == SeqsUpTo(S, n - 1)
         IN  shorter \cup {Append(q, e) : q \in shorter, e \in S}

\* the concatenation of a sequence of sequences
RECURSIVE Concat(_)
Concat(ss) == IF ss = <<>> THEN <<>> ELSE Head(ss) \o Concat(Tail(ss))

MaxItems == 3

\* the texts of the envelopes
EnvelopeTexts == {<<"x">>, <<"y">>}

\* the content elements: with a text, without one
Elements == {[text |-> t] : t \in EnvelopeTexts} \cup {[other |-> <<"x">>]}

\* the content arrays of an output item: empty, one element, two elements
Contents == {<<>>} \cup {<<e>> : e \in Elements} \cup {<<[text |-> <<"x">>], [text |-> <<"y">>]>>}

\* the output items: of type message or not, with a content array or without
OutputItems ==
    [type : {<<"message">>, <<"function_call">>}, content : Contents]
    \cup [type : {<<"message">>, <<"function_call">>}]

Envelopes == SeqsUpTo(OutputItems, MaxItems)

\* ------------------------------------------------------------------------
\* app.py: session state
\* ------------------------------------------------------------------------
\* None for a dedup key, a prompt or an event
NoKey == "None"

NoInput == [key |-> NoKey, prompt |-> NoKey]

NoEvent == [type |-> "none", input |-> NoInput]

\* the "if ... not in st.session_state" block
InitSession ==
    /\ thread_id = 1
    /\ messages = <<>>
    /\ tool_calls = <<>>
    /\ prompts_w_tools = <<>>
    /\ is_processing = FALSE
    /\ last_processed_input = NoKey
    /\ stop = FALSE
    /\ spc = "idle"
    /\ input_dict = NoInput
    /\ rerun_request = NoEvent
    /\ calls = 0
    /\ event = NoEvent
    /\ accepted = FALSE

\* demo_streamlit.py: the "if ... not in st.session_state" block
InitDemoSession ==
    /\ state = "idle"
    /\ current_query = <<>>
    /\ trigger_query = None
    /\ auto_approve = FALSE
    /\ agent_steps = <<>>
    /\ demo_messages = <<>>
    /\ steps = <<>>
    /\ dpc = "rest"
    /\ demo_request = [type |-> "none", prompt |-> <<>>]
    /\ demo_event = [type |-> "none", prompt |-> <<>>]

\* ------------------------------------------------------------------------
\* ResponseExtractor applied to an envelope
\* ------------------------------------------------------------------------
InitExtract ==
    /\ response_json \in Envelopes
    /\ text_contents = Returned(<<>>)
    /\ xpc = "input"
    /\ text = <<>>
    /\ parsed = <<>>
    /\ cleaned_text = <<>>
    /\ recleaned = <<>>
    /\ tpc = "input"
    /\ InitSession
    /\ InitDemoSession

Extract ==
    /\ xpc = "input"
    /\ text_contents' = extract_text_content(response_json)
    /\ xpc' = "done"
    /\ UNCHANGED <<response_json, text_vars, session_vars, demo_vars>>

NextExtract == Extract

SpecExtract == InitExtract /\ [][NextExtract]_vars

\* ------------------------------------------------------------------------
\* Message texts
\* ------------------------------------------------------------------------
IOsearch == "<invoke name=\"search\">"
IOf == "<invoke name=\"f\">"
IOg == "<invoke name=\"g\">"
POq == "<parameter name=\"q\">"
POa == "<parameter name=\"a\">"
POb == "<parameter name=\"b\">"

\* a reasoning block with white space around its content
Reasoning == <<TO, SP, "y", SP, TC>>

\* the text of the end-to-end scenario of section 8
Scenario ==
    <<FO, NL, IOsearch, POq, "EGFR", PC, IC, NL, FC, NL,
      TO, "Looking up EGFR", TC, NL, "Here are the results.">>

\* single markers, halves of the opening container marker, a word, a block
MaxMarkers == 3

MarkerChunks == {<<FO>>, <<FC>>, <<TO>>, <<TC>>, <<FO1>>, <<FO2>>, <<TO1>>, <<TO2>>, <<"x">>, Reasoning}

MarkerTexts == {Lex(Concat(cs)) : cs \in SeqsUpTo(MarkerChunks, MaxMarkers)}

\* whole containers, reasoning blocks, an invoke outside a container, text
MaxBlocks == 3

Container1 == <<FO, NL, IOsearch, POq, "EGFR", PC, IC, NL, FC>>
Container2 == <<FO, IOf, IC, NL, IOg, POa, "1", PC, IC, FC>>

BlockChunks == {Container1, Container2, Reasoning, <<TO, "x", NL, "y", TC>>, <<IOf, IC>>, <<NL>>, <<"x">>}

BlockTexts == {Concat(cs) : cs \in SeqsUpTo(BlockChunks, MaxBlocks)}

\* a container inside a container, with invokes before, inside and after it
MaxNested == 1

NestedChunks == {<<IOf, IC>>, <<IOg, POa, "1", PC, IC>>, <<"x">>}

NestedBodies == {Concat(cs) : cs \in SeqsUpTo(NestedChunks, MaxNested)}

NestedTexts ==
    {<<FO>> \o a \o <<FO>> \o b \o <<FC>> \o c \o <<FC>> \o d :
        a \in NestedBodies, b \in NestedBodies, c \in NestedBodies, d \in {<<>>, <<"x">>}}

\* one invoke whose body is made of parameter elements and their pieces
MaxParams == 3

ParamChunks ==
    {<<POa, "1", PC>>, <<POa, SP, "2", NL, PC>>, <<POb, "2", PC>>, <<POq, "1", LT, "2", PC>>,
     <<POa>>, <<PC>>, <<LT>>, <<"x">>, <<NL>>}

ParamTexts == {<<FO, IOf>> \o Concat(cs) \o <<IC, FC>> : cs \in SeqsUpTo(ParamChunks, MaxParams)}

\* texts without any "<"
MaxPlain == 6

PlainTexts == SeqsUpTo({"x", SP, NL}, MaxPlain)

\* the grammar of section 6: one container with one invoke, one reasoning block
ContainerWS == {<<>>, <<NL>>, <<SP, NL>>}
ReasoningWS == {<<>>, <<SP>>}
ParamLists == {<<>>, <<POq, "EGFR", PC>>, <<POa, "1", PC, POb, SP, "2", PC>>}
ReasoningBodies == {<<"Looking up EGFR">>, <<"x", NL, "y">>}

WellFormedContainers ==
    {<<FO>> \o w \o <<io>> \o ps \o <<IC>> \o w \o <<FC>> :
        w \in ContainerWS, io \in {IOsearch, IOf}, ps \in ParamLists}

WellFormedReasonings == {<<TO>> \o w \o b \o w \o <<TC>> : w \in ReasoningWS, b \in ReasoningBodies}

WellFormedTexts ==
    LET around == {<<pre, mid, post>> :
                      pre \in {<<>>, <<"x", SP>>}, mid \in {<<>>, <<NL>>},
                      post \in {<<>>, <<NL, "Here are the results.">>}}
    IN  {a[1] \o c \o a[2] \o r \o a[3] : a \in around, c \in WellFormedContainers, r \in WellFormedReasonings}
        \cup {a[1] \o r \o a[2] \o c \o a[3] : a \in around, c \in WellFormedContainers, r \in WellFormedReasonings}

\* the two halves of an opening marker around a block that the stripper
\* removes, with what may follow
JoinTexts ==
    {Lex(<<a>> \o mid \o <<b>> \o tail) :
        a \in {FO1, TO1}, b \in {FO2, TO2},
        mid \in {Reasoning, Container1, <<FO, FC>>, <<TO, TC>>},
        tail \in {<<>>, <<FC>>, <<TC>>, <<"x", FC>>, <<"x", TC>>}}

\* a reasoning block and a container that overlap: each one closes inside
\* the other; the word "y" stands in the reasoning block only
OverlapTexts ==
    LET invs == {<<>>, <<IOf, IC>>}
        words == {<<>>, <<"x">>}
    IN  {<<TO, "y", FO>> \o i \o <<TC>> \o b \o <<FC>> \o c : i \in invs, b \in words, c \in words}
        \cup {<<FO>> \o i \o <<TO, "y", FC>> \o b \o <<TC>> \o c : i \in invs, b \in words, c \in words}
        \cup {a \o <<FO>> \o i \o <<FC, TO, "y", FO>> \o j \o <<TC, FC>> : a \in words, i \in invs, j \in invs}

Texts ==
    MarkerTexts \cup BlockTexts \cup NestedTexts \cup ParamTexts \cup PlainTexts
    \cup WellFormedTexts \cup JoinTexts \cup OverlapTexts

\* ------------------------------------------------------------------------
\* ToolCallParser and TagStripper applied to a message text
\* ------------------------------------------------------------------------
InitText ==
    /\ text \in Texts
    /\ parsed = <<>>
    /\ cleaned_text = <<>>
    /\ recleaned = <<>>
    /\ tpc = "input"
    /\ response_json = <<>>
    /\ text_contents = Returned(<<>>)
    /\ xpc = "input"
    /\ InitSession
    /\ InitDemoSession

Parse ==
    /\ tpc = "input"
    /\ parsed' = parse_tool_calls(text)
    /\ tpc' = "parsed"
    /\ UNCHANGED <<text, cleaned_text, recleaned, extract_vars, demo_vars, session_vars>>

Strip ==
    /\ tpc = "parsed"
    /\ cleaned_text' = strip_tool_call_tags(text)
    /\ tpc' = "stripped"
    /\ UNCHANGED <<text, parsed, recleaned, extract_vars, demo_vars, session_vars>>

\* the stripper applied to its own output
Restrip ==
    /\ tpc = "stripped"
    /\ recleaned' = strip_tool_call_tags(cleaned_text)
    /\ tpc' = "restripped"
    /\ UNCHANGED <<text, parsed, cleaned_text, extract_vars, demo_vars, session_vars>>

NextText == Parse \/ Strip \/ Restrip

SpecText == InitText /\ [][NextText]_vars

\* ------------------------------------------------------------------------
\* app.py: the chat session
\* ------------------------------------------------------------------------
\* A script run of app.py is started by a widget event.  A run that is inside
\* the transport call goes on until the call returns; a widget event that
\* arrives meanwhile is a rerun request, which stops the run at its next
\* Streamlit command (status.update) and then starts the next run.
MaxCalls == 2
MaxThreads == 2

\* the inputs: a prompt and the input_key built for it
Inputs ==
    {[key |-> "chat:p1", prompt |-> "p1"],
     [key |-> "chat:p2", prompt |-> "p2"],
     [key |-> "example:p1", prompt |-> "p1"]}

\* the inputs of the example pills, which are rendered only while the turn
\* list is empty
ExampleInputs == {inp \in Inputs : inp.key = "example:p1"}

Rendered(inp) == IF inp \in ExampleInputs /\ Len(messages) > 0 THEN NoInput ELSE inp

Events ==
    {[type |-> "submit", input |-> inp] : inp \in Inputs}
    \cup {[type |-> "stop", input |-> NoInput], [type |-> "reset", input |-> NoInput]}

message_item(t) == [type |-> <<"message">>, content |-> <<[text |-> t]>>]

\* the envelopes the transport returns
SessionEnvelopes ==
    {<<>>,
     <<message_item(<<"x">>)>>,
     <<message_item(<<"x">>), message_item(Scenario)>>,
     <<message_item(Container2 \o Reasoning)>>,
     <<message_item(<<"y">>), [type |-> <<"function_call">>], message_item(<<"x">>)>>,
     <<message_item(<<"x">>), message_item(<<"y">>), message_item(<<"x">>)>>,
     <<[type |-> <<"message">>]>>,
     <<[type |-> <<"message">>, content |-> <<>>]>>,
     <<[type |-> <<"message">>, content |-> <<[other |-> <<"x">>]>>]>>,
     <<[type |-> <<"function_call">>]>>}

\* an empty assistant response in place of the fallback text
Fallback_empty == <<>>

Fallback == <<"No response. Retry or reset the chat.">>

user_message(prompt) == [role |-> "user", content |-> <<prompt>>]

assistant_message(assistant_response) == [role |-> "assistant", content |-> assistant_response]

\* the guard with the comparison of the dedup keys only while a turn is processed
is_new_input_while_processing(inp) ==
    inp # NoInput /\ (is_processing => inp.key # last_processed_input) /\ ~stop

\* the guard without the comparison of the dedup keys
is_new_input_any_key(inp) == inp # NoInput /\ ~stop

\* the guard of the processing block
is_new_input(inp) == inp # NoInput /\ inp.key # last_processed_input /\ ~stop

\* the script from the guard to the call of the transport, for a run whose
\* prompt and input_key are those of inp
RunScript(input) ==
    LET inp == Rendered(input) IN
    IF is_new_input(inp)
    THEN /\ last_processed_input' = inp.key
         /\ messages' = Append(messages, user_message(inp.prompt))
         /\ is_processing' = TRUE
         /\ input_dict' = inp
         /\ calls' = calls + 1
         /\ spc' = "calling"
         /\ accepted' = TRUE
         /\ UNCHANGED <<thread_id, tool_calls, prompts_w_tools>>
    ELSE /\ spc' = "idle"
         /\ accepted' = FALSE
         /\ UNCHANGED <<thread_id, messages, tool_calls, prompts_w_tools, is_processing,
                        last_processed_input, input_dict, calls>>

\* an input is submitted (or replayed by a re-render) while no run is under way
Submit(inp) ==
    /\ spc \in {"idle", "raised"}
    /\ calls < MaxCalls
    /\ Rendered(inp) = inp
    /\ event' = [type |-> "submit", input |-> inp]
    /\ RunScript(inp)
    /\ UNCHANGED <<stop, rerun_request, extract_vars, demo_vars, text_vars>>

\* a widget event arrives while the run is inside the transport call; the
\* Stop button exists only then
Request(e) ==
    /\ spc = "calling"
    /\ e.type = "submit" => calls < MaxCalls
    /\ e.type = "reset" => thread_id < MaxThreads
    /\ rerun_request' = e
    /\ UNCHANGED <<thread_id, messages, tool_calls, prompts_w_tools, is_processing,
                   last_processed_input, stop, spc, input_dict, calls, event, accepted,
                   extract_vars, demo_vars, text_vars>>

\* the run ends with an exception: the session state stays as it is, and the
\* page keeps what the run has rendered, the Stop button included
RunRaises ==
    /\ spc' = IF rerun_request = NoEvent THEN "raised" ELSE "interrupted"
    /\ UNCHANGED <<thread_id, messages, tool_calls, prompts_w_tools, is_processing,
                   last_processed_input, stop, input_dict, calls, accepted>>

\* the transport call returns response_json; the rest of the processing block
Return(env) ==
    /\ spc = "calling"
    /\ LET contents == extract_text_content(env) IN
       IF contents.raised
       THEN RunRaises
       ELSE IF Len(contents.value) > 0 /\ contents.value[Len(contents.value)] = None
       THEN RunRaises
       ELSE LET some == Len(contents.value) > 0
                text_content == contents.value[Len(contents.value)]
                all_tool_calls == IF some THEN parse_tool_calls(text_content) ELSE <<>>
                cleaned == IF some THEN strip_tool_call_tags(text_content) ELSE <<>>
                assistant_response == IF some THEN cleaned ELSE Fallback
            IN  /\ tool_calls' = IF Len(all_tool_calls) > 0
                                 THEN Append(tool_calls, all_tool_calls) ELSE tool_calls
                /\ prompts_w_tools' = IF Len(all_tool_calls) > 0
                                      THEN Append(prompts_w_tools, input_dict.prompt)
                                      ELSE prompts_w_tools
                /\ messages' = Append(messages, assistant_message(assistant_response))
                /\ IF rerun_request = NoEvent
                   THEN is_processing' = FALSE /\ spc' = "idle"
                   ELSE is_processing' = is_processing /\ spc' = "interrupted"
                /\ UNCHANGED <<thread_id, last_processed_input, stop, input_dict, calls,
                               accepted>>
    /\ response_json' = env
    /\ text_contents' = extract_text_content(env)
    /\ xpc' = "done"
    /\ UNCHANGED <<rerun_request, event, demo_vars, text_vars>>

\* the transport call raises: extract_text_content is not reached
TransportRaises ==
    /\ spc = "calling"
    /\ RunRaises
    /\ text_contents' = Raised
    /\ xpc' = "input"
    /\ UNCHANGED <<rerun_request, event, response_json, demo_vars, text_vars>>

\* the callback without the assignment to last_processed_input
stop_processing_keeps_key ==
    /\ stop' = TRUE
    /\ IF is_processing
       THEN /\ messages' = IF Len(messages) > 0 /\ messages[Len(messages)].role = "user"
                           THEN SubSeq(messages, 1, Len(messages) - 1)
                           ELSE messages
            /\ last_processed_input' = last_processed_input
            /\ is_processing' = FALSE
       ELSE UNCHANGED <<messages, last_processed_input, is_processing>>

\* the callback of the Stop button; st.session_state.stop is the value of the
\* button, which is true in the run for its click
stop_processing ==
    /\ stop' = TRUE
    /\ IF is_processing
       THEN /\ messages' = IF Len(messages) > 0 /\ messages[Len(messages)].role = "user"
                           THEN SubSeq(messages, 1, Len(messages) - 1)
                           ELSE messages
            /\ last_processed_input' = NoKey
            /\ is_processing' = FALSE
       ELSE UNCHANGED <<messages, last_processed_input, is_processing>>

\* the Reset button without the assignment to prompts_w_tools
reset_keeps_prompts ==
    /\ thread_id' = thread_id + 1
    /\ messages' = <<>>
    /\ tool_calls' = <<>>
    /\ is_processing' = FALSE
    /\ last_processed_input' = NoKey
    /\ stop' = FALSE
    /\ prompts_w_tools' = prompts_w_tools

\* the Reset button without the assignment to last_processed_input
reset_keeps_key ==
    /\ thread_id' = thread_id + 1
    /\ messages' = <<>>
    /\ tool_calls' = <<>>
    /\ is_processing' = FALSE
    /\ last_processed_input' = last_processed_input
    /\ stop' = FALSE
    /\ prompts_w_tools' = <<>>

\* the Reset button
reset ==
    /\ thread_id' = thread_id + 1
    /\ messages' = <<>>
    /\ tool_calls' = <<>>
    /\ is_processing' = FALSE
    /\ last_processed_input' = NoKey
    /\ stop' = FALSE
    /\ prompts_w_tools' = <<>>

\* the run for the event that arrived during the previous run
HandleRequest ==
    /\ spc = "interrupted"
    /\ event' = rerun_request
    /\ rerun_request' = NoEvent
    /\ CASE rerun_request.type = "submit" ->
                /\ RunScript(rerun_request.input)
                /\ UNCHANGED stop
         [] rerun_request.type = "stop" ->
                /\ stop_processing
                /\ spc' = "stopping"
                /\ UNCHANGED <<thread_id, tool_calls, prompts_w_tools, input_dict, calls,
                               accepted>>
         [] rerun_request.type = "reset" ->
                /\ reset
                /\ spc' = "idle"
                /\ UNCHANGED <<input_dict, calls, accepted>>
    /\ UNCHANGED <<extract_vars, demo_vars, text_vars>>

\* the Stop button is clicked on the page that a run has left by raising
Stop ==
    /\ spc = "raised"
    /\ event' = [type |-> "stop", input |-> NoInput]
    /\ stop_processing
    /\ spc' = "stopping"
    /\ UNCHANGED <<thread_id, tool_calls, prompts_w_tools, input_dict, calls, accepted,
                   rerun_request, extract_vars, demo_vars, text_vars>>

\* the script of the run for a click on Stop, after the callback: the guard
\* sees the value of the button, whatever a selected example pill replays;
\* when the run has ended the value of the button is false again
RunAfterStop ==
    /\ spc = "stopping"
    /\ \E inp \in ExampleInputs \cup {NoInput} : RunScript(inp)
    /\ stop' = FALSE
    /\ UNCHANGED <<event, rerun_request, extract_vars, demo_vars, text_vars>>

\* the Reset button is clicked while no run is under way
Reset ==
    /\ spc \in {"idle", "raised"}
    /\ thread_id < MaxThreads
    /\ event' = [type |-> "reset", input |-> NoInput]
    /\ reset
    /\ spc' = "idle"
    /\ UNCHANGED <<input_dict, calls, accepted, rerun_request, extract_vars, demo_vars,
                   text_vars>>

InitApp ==
    /\ InitSession
    /\ InitDemoSession
    /\ response_json = <<>>
    /\ text_contents = Returned(<<>>)
    /\ xpc = "input"
    /\ text = <<>>
    /\ parsed = <<>>
    /\ cleaned_text = <<>>
    /\ recleaned = <<>>
    /\ tpc = "input"

NextApp ==
    \/ \E inp \in Inputs : Submit(inp)
    \/ \E e \in Events : Request(e)
    \/ TransportRaises
    \/ \E env \in SessionEnvelopes : Return(env)
    \/ HandleRequest
    \/ Stop
    \/ RunAfterStop
    \/ Reset

SpecApp == InitApp /\ [][NextApp]_vars

\* the steps of app.py when the transport call of every accepted input returns
NextAppReturns ==
    \/ \E inp \in Inputs : Submit(inp)
    \/ \E e \in Events : Request(e)
    \/ \E env \in SessionEnvelopes : Return(env)
    \/ HandleRequest
    \/ Stop
    \/ RunAfterStop
    \/ Reset

\* The transport call returns, and Streamlit runs the script for a pending
\* widget event and the script of a started run to its end.  Nothing makes
\* the user submit, click Stop or click Reset.
FairSpecApp ==
    /\ InitApp
    /\ [][NextAppReturns]_vars
    /\ WF_vars(\E env \in SessionEnvelopes : Return(env))
    /\ WF_vars(HandleRequest)
    /\ WF_vars(RunAfterStop)

\* ------------------------------------------------------------------------
\* demo_streamlit.py: the approval flow
\* ------------------------------------------------------------------------
\* A script run of demo_streamlit.py is started by a widget event or by
\* st.rerun().  A run outside the executing branch has no waiting and is one
\* step; the executing branch is one step per progress_placeholder.write.  A
\* widget event that arrives during the executing branch, from a widget this
\* run has rendered, stops the run at its next write and starts the next run.
MaxTurns == 3

\* the suggestion buttons of an answer that are clicked: its first MaxButtons
MaxButtons == 1

AGENT_PLAN ==
    <<[name |-> "PubChem agent", description |-> <<"Search for compounds matching query">>],
      [name |-> "OpenTargets agent", description |-> <<"Retrieve target evidence and associations">>],
      [name |-> "VS agent", description |-> <<"Cluster and rank diverse hits">>]>>

FOLLOW_UPS ==
    [egfr |-> <<<<"Show binding mode of top hit">>, <<"Compare selectivity vs other kinases">>,
                <<"What's the ADMET profile?">>>>,
     kras |-> <<<<"Find G12C-specific binders">>, <<"Show covalent warhead options">>,
                <<"Compare to existing", "kras", "inhibitors">>>>,
     default |-> <<<<"Run toxicity prediction">>, <<"Find similar approved drugs">>,
                   <<"Show structure-activity relationship">>>>]

\* "word in q" for a lower-cased query, a sequence of words
Contains(q, word) == \E i \in 1..Len(q) : q[i] = word

get_suggestions(query) ==
    IF Contains(query, "egfr") THEN FOLLOW_UPS.egfr
    ELSE IF Contains(query, "kras") THEN FOLLOW_UPS.kras
    ELSE FOLLOW_UPS.default

\* the (name, result) pairs of the executing branch
agents ==
    <<[name |-> "Plan created", result |-> <<"Execution plan ready">>],
      [name |-> "PubChem agent", result |-> <<"2,143 candidates found">>],
      [name |-> "OpenTargets agent", result |-> <<"target evidence retrieved">>],
      [name |-> "VS agent", result |-> <<"clustered 50 diverse hits">>]>>

\* the prompts typed into the chat input
ChatPrompts == {<<"egfr">>, <<"x">>}

\* the session state as one value
Session ==
    [state |-> state, current_query |-> current_query, trigger_query |-> trigger_query,
     auto_approve |-> auto_approve, agent_steps |-> agent_steps, messages |-> demo_messages]

\* the steps seeded with every step of the plan running
seed_running ==
    <<[name |-> "Plan created", status |-> "completed", result |-> <<"Execution plan ready">>]>>
    \o [i \in 1..Len(AGENT_PLAN) |->
           [name |-> AGENT_PLAN[i].name, status |-> "running", result |-> AGENT_PLAN[i].description]]

\* the steps seeded for an accepted input
seed ==
    <<[name |-> "Plan created", status |-> "completed", result |-> <<"Execution plan ready">>]>>
    \o [i \in 1..Len(AGENT_PLAN) |->
           [name |-> AGENT_PLAN[i].name, status |-> "pending", result |-> AGENT_PLAN[i].description]]

\* the input is accepted and executed whatever auto_approve is
accept_executing(S, prompt) ==
    [S EXCEPT !.current_query = prompt, !.agent_steps = seed, !.state = "executing"]

\* the body shared by the trigger_query block and the chat input block
accept(S, prompt) ==
    [S EXCEPT !.current_query = prompt,
              !.agent_steps = seed,
              !.state = IF S.auto_approve THEN "executing" ELSE "awaiting_approval"]

on_approve(S) == [S EXCEPT !.state = "executing"]

\* the callback of the Cancel button that keeps the pending input and the steps
on_cancel_keep(S) == [S EXCEPT !.state = "idle"]

on_cancel(S) == [S EXCEPT !.state = "idle", !.agent_steps = <<>>, !.current_query = <<>>]

\* the suggestion buttons the run renders: those of the assistant turns
Suggestions(msgs) ==
    {get_suggestions(msgs[i].original_query)[idx] :
        i \in {j \in 1..Len(msgs) : msgs[j].role = "assistant"}, idx \in 1..MaxButtons}

NoDemoEvent == [type |-> "none", prompt |-> <<>>]

\* one script run started for the widget event e, from its callback to its
\* end or to the loop of the executing branch; the run after st.rerun() has no
\* widget event
RECURSIVE script(_, _)
script(S, e) ==
    LET called == IF e.type = "approve" THEN on_approve(S)
                  ELSE IF e.type = "cancel" THEN on_cancel(S)
                  ELSE S
        shown == IF e.type = "suggestion"
                 THEN [called EXCEPT !.trigger_query = e.prompt]
                 ELSE called
    IN  IF shown.state = "executing" THEN shown
        ELSE IF shown.trigger_query # None
        THEN script(accept([shown EXCEPT !.trigger_query = None], shown.trigger_query),
                    NoDemoEvent)
        ELSE IF e.type = "chat" /\ shown.state \in {"idle", "complete"}
        THEN script(accept(shown, e.prompt), NoDemoEvent)
        ELSE IF e.type = "toggle"
        THEN [shown EXCEPT !.auto_approve = ~shown.auto_approve]
        ELSE shown

\* the session state and the position after the run that script describes
Ran(S) ==
    /\ state' = S.state
    /\ current_query' = S.current_query
    /\ trigger_query' = S.trigger_query
    /\ auto_approve' = S.auto_approve
    /\ agent_steps' = S.agent_steps
    /\ demo_messages' = S.messages
    /\ steps' = <<>>
    /\ dpc' = IF S.state = "executing" THEN "branch" ELSE "rest"

\* the widgets on the page between two runs
Widgets ==
    {[type |-> "chat", prompt |-> p] : p \in IF state \in {"idle", "complete"} THEN ChatPrompts ELSE {}}
    \cup {[type |-> "suggestion", prompt |-> s] : s \in Suggestions(demo_messages)}
    \cup {[type |-> t, prompt |-> <<>>] :
             t \in IF state = "awaiting_approval" /\ agent_steps # <<>>
                   THEN {"approve", "cancel"} ELSE {}}
    \cup {[type |-> "toggle", prompt |-> <<>>]}

\* a widget event between two runs
DemoEvent(e) ==
    /\ dpc = "rest"
    /\ e \in Widgets
    /\ e.type \in {"chat", "suggestion"} => Len(demo_messages) < 2 * MaxTurns
    /\ demo_event' = e
    /\ Ran(script(Session, e))
    /\ UNCHANGED <<demo_request, extract_vars, text_vars, session_vars>>

\* a click on a suggestion button while the executing branch is running
DemoRequest(e) ==
    /\ dpc \in {"branch", "running", "completed"}
    /\ demo_request = NoDemoEvent
    /\ e.type = "suggestion"
    /\ e.prompt \in Suggestions(demo_messages)
    /\ Len(demo_messages) + 2 < 2 * MaxTurns
    /\ demo_request' = e
    /\ UNCHANGED <<state, current_query, trigger_query, auto_approve, agent_steps,
                   demo_messages, steps, dpc, demo_event, extract_vars, text_vars, session_vars>>

\* progress_placeholder.write: the run goes on, or stops for the run of the
\* event that arrived
Write(S, pos) ==
    IF demo_request = NoDemoEvent
    THEN /\ agent_steps' = S.agent_steps
         /\ dpc' = pos
         /\ UNCHANGED <<state, current_query, trigger_query, auto_approve, demo_messages,
                        demo_request, demo_event>>
    ELSE /\ Ran(script(S, demo_request))
         /\ demo_event' = demo_request
         /\ demo_request' = NoDemoEvent

\* the first half of the loop body: the next step is running
RunStep ==
    /\ dpc \in {"branch", "completed"}
    /\ Len(steps) < Len(agents)
    /\ LET appended == Append(steps, [name |-> agents[Len(steps) + 1].name,
                                      status |-> "running", result |-> None])
       IN  /\ Write([Session EXCEPT !.agent_steps = appended], "running")
           /\ demo_request = NoDemoEvent => steps' = appended
    /\ UNCHANGED <<extract_vars, text_vars, session_vars>>

\* the last step is marked completed but keeps its result
mark_completed_no_result(list) ==
    [list EXCEPT ![Len(list)] = [@ EXCEPT !.status = "completed"]]

\* the completed step alone in place of the list
mark_completed_last_only(list) ==
    <<[list[Len(list)] EXCEPT !.status = "completed", !.result = agents[Len(list)].result]>>

\* steps[-1]["status"] = "completed"; steps[-1]["result"] = result
mark_completed(list) ==
    [list EXCEPT ![Len(list)] =
        [@ EXCEPT !.status = "completed", !.result = agents[Len(list)].result]]

\* the second half of the loop body: the running step is completed
CompleteStep ==
    /\ dpc = "running"
    /\ LET done == mark_completed(steps)
       IN  /\ Write([Session EXCEPT !.agent_steps = done], "completed")
           /\ demo_request = NoDemoEvent => steps' = done
    /\ UNCHANGED <<extract_vars, text_vars, session_vars>>

\* the history with the assistant turn only
save_to_history_assistant_only(msgs, original_query) ==
    Append(msgs, [role |-> "assistant", content |-> <<"Analysis complete!">>,
                  has_results |-> TRUE, original_query |-> original_query,
                  id |-> Len(msgs) + 1])

\* the two appends of "Save to history"
save_to_history(msgs, original_query) ==
    LET msg_id == Len(msgs)
    IN  msgs \o <<[role |-> "user", content |-> original_query, id |-> msg_id],
                  [role |-> "assistant", content |-> <<"Analysis complete!">>,
                   has_results |-> TRUE, original_query |-> original_query,
                   id |-> msg_id + 1]>>

\* "Save to history", st.rerun() and the run it starts
SaveHistory ==
    /\ dpc = "completed"
    /\ Len(steps) = Len(agents)
    /\ LET saved == [Session EXCEPT
                        !.messages = save_to_history(demo_messages, current_query),
                        !.state = "complete",
                        !.current_query = <<>>]
       IN  Ran(script(saved, demo_request))
    /\ demo_event' = demo_request
    /\ demo_request' = NoDemoEvent
    /\ UNCHANGED <<extract_vars, text_vars, session_vars>>

InitDemo ==
    /\ InitSession
    /\ InitDemoSession
    /\ response_json = <<>>
    /\ text_contents = Returned(<<>>)
    /\ xpc = "input"
    /\ text = <<>>
    /\ parsed = <<>>
    /\ cleaned_text = <<>>
    /\ recleaned = <<>>
    /\ tpc = "input"

NextDemo ==
    \/ \E e \in Widgets : DemoEvent(e)
    \/ \E e \in {[type |-> "suggestion", prompt |-> s] : s \in Suggestions(demo_messages)} :
           DemoRequest(e)
    \/ RunStep
    \/ CompleteStep
    \/ SaveHistory

SpecDemo == InitDemo /\ [][NextDemo]_vars

\* ------------------------------------------------------------------------
\* C1
\* ------------------------------------------------------------------------
IsMessage(item) == get(item, "type") = <<"message">>

\* every message item has a first content element
HasFirstContent(output) ==
    \A n \in 1..Len(output) :
        IsMessage(output[n]) => "content" \in DOMAIN output[n] /\ output[n].content # <<>>

\* content[0].text of the message items, in envelope order
MessageTexts(output) ==
    LET items == SelectSeq(output, IsMessage)
    IN  [n \in 1..Len(items) |-> get(items[n].content[1], "text")]

\* index of the first occurrence of x in list
FirstIndex(x, list) == CHOOSE n \in 1..Len(list) : list[n] = x /\ \A m \in 1..(n - 1) : list[m] # x

RECURSIVE InvokesOf(_)
InvokesOf(blocks) == IF blocks = <<>> THEN <<>> ELSE invokes(Head(blocks)) \o InvokesOf(Tail(blocks))

AllInvokes(t) == InvokesOf(function_calls_blocks(t))

\* C2: the i-th reasoning block of the whole text, trimmed, is the thinking of
\* the i-th record, counted across all containers; records at or beyond the
\* number of reasoning blocks have thinking None; surplus blocks are dropped.
C2_PositionalBinding ==
    tpc # "input" =>
        LET blocks == thinking_blocks(text) IN
        /\ Len(parsed) = Len(AllInvokes(text))
        /\ \A i \in 1..Len(parsed) :
            /\ parsed[i].function_name = AllInvokes(text)[i][1]
            /\ parsed[i].thinking = IF i <= Len(blocks) THEN strip(blocks[i]) ELSE None
        /\ (Len(parsed) = 2 /\ Len(blocks) = 1) =>
            (parsed[1].thinking # None /\ parsed[2].thinking = None)

\* two invokes in one container, one reasoning block after it
C2_Witness ==
    /\ tpc = "parsed"
    /\ text = Container2 \o Reasoning
    /\ parsed[1].thinking = <<"y">>
    /\ parsed[2].thinking = None

\* ------------------------------------------------------------------------
\* C3
\* ------------------------------------------------------------------------
\* index of the last occurrence of name among the matched parameter elements
LastIndexOfName(name, ps) ==
    CHOOSE n \in 1..Len(ps) : ps[n][1] = name /\ \A m \in (n + 1)..Len(ps) : ps[m][1] # name

FirstIndexOfName(name, ps) ==
    CHOOSE n \in 1..Len(ps) : ps[n][1] = name /\ \A m \in 1..(n - 1) : ps[m][1] # name

\* C3: the parameters of a record hold every name of the parameter elements
\* of its invoke once, in the order the names first appear, and the value of
\* a name is the trimmed value of its last occurrence.
C3_ParameterMapping ==
    tpc # "input" =>
        \A k \in 1..Len(parsed) :
            LET ps == params(AllInvokes(text)[k][2], 1)
                d == parsed[k].parameters
            IN  /\ \A i, j \in 1..Len(d) : i # j => d[i][1] # d[j][1]
                /\ {d[i][1] : i \in 1..Len(d)} = {ps[n][1] : n \in 1..Len(ps)}
                /\ \A i, j \in 1..Len(d) :
                    i < j => FirstIndexOfName(d[i][1], ps) < FirstIndexOfName(d[j][1], ps)
                /\ \A i \in 1..Len(d) :
                    LET v == ps[LastIndexOfName(d[i][1], ps)][2]
                    IN  /\ d[i][2] = strip(v)
                        /\ d[i][2] = <<>> \/ (~IsSpace(d[i][2][1]) /\ ~IsSpace(d[i][2][Len(d[i][2])]))

\* a = 1, b = 2, then a again with the value " 2\n"
C3_Witness ==
    /\ tpc = "parsed"
    /\ text = <<FO, IOf, POa, "1", PC, POb, "2", PC, POa, SP, "2", NL, PC, IC, FC>>
    /\ parsed[1].parameters = <<(<<"a", <<"2">>>>), (<<"b", <<"2">>>>)>>

\* ------------------------------------------------------------------------
\* C4
\* ------------------------------------------------------------------------
\* a text made of one container with one invoke "f"; its body
IsOneInvoke(t) ==
    /\ Len(t) >= 4
    /\ t[1] = FO /\ t[2] = IOf /\ t[Len(t) - 1] = IC /\ t[Len(t)] = FC
    /\ \A n \in 3..(Len(t) - 2) : t[n] \notin ({FO, FC, IC, TO, TC} \cup InvokeOpen)

BodyOf(t) == SubSeq(t, 3, Len(t) - 2)

\* the opening parameter marker at i has a closing marker after it and a "<"
\* in between
ValueHasLt(b, i) ==
    /\ b[i] \in ParamOpen
    /\ Find(b, {PC}, i + 1) # 0
    /\ FindLt(b, i + 1) < Find(b, {PC}, i + 1)

\* s without its element at index i
Delete(b, i) == SubSeq(b, 1, i - 1) \o SubSeq(b, i + 1, Len(b))

\* C4 as claimed: the record carries the parameter, its value cut before the
\* "<".  Stated for a body with a single opening parameter marker.
C4_TruncatedValue ==
    (tpc # "input" /\ IsOneInvoke(text)) =>
        LET b == BodyOf(text) IN
        \A i \in 1..Len(b) :
            (ValueHasLt(b, i) /\ \A n \in 1..Len(b) : b[n] \in ParamOpen => n = i) =>
                /\ Len(parsed) = 1
                /\ parsed[1].parameters =
                       <<(<<ParamName(b[i]), strip(SubSeq(b, i + 1, FindLt(b, i + 1) - 1))>>)>>

\* C4 amended: such an opening marker matches nothing.  The record is still
\* emitted, and its parameters are those of the body without that marker; a
\* body whose only opening marker it is gives no parameter at all.
C4_NoMatch ==
    (tpc # "input" /\ IsOneInvoke(text)) =>
        LET b == BodyOf(text) IN
        \A i \in 1..Len(b) :
            ValueHasLt(b, i) =>
                /\ Len(parsed) = 1
                /\ parsed[1].function_name = "f"
                /\ parsed[1].parameters = parameters(params(Delete(b, i), 1), <<>>)
                /\ (\A n \in 1..Len(b) : b[n] \in ParamOpen => n = i) => parsed[1].parameters = <<>>

\* q = "1<2"
C4_Witness ==
    /\ tpc = "parsed"
    /\ text = <<FO, IOf, POq, "1", LT, "2", PC, IC, FC>>
    /\ parsed = <<[function_name |-> "f", parameters |-> <<>>, thinking |-> None]>>

\* ------------------------------------------------------------------------
\* C5
\* ------------------------------------------------------------------------
\* C5: the stripper applied to its own output changes nothing.
C5_Idempotent == tpc = "restripped" => recleaned = cleaned_text

\* ------------------------------------------------------------------------
\* C6
\* ------------------------------------------------------------------------
NoMarker(t) == \A n \in 1..Len(t) : ~HasLt(t[n])

NonSpace(t) == SelectSeq(t, LAMBDA c : ~IsSpace(c))

\* t has a run of white space with three or more newlines
HasTripleRun(t) ==
    \E i, j \in 1..Len(t) :
        /\ i <= j
        /\ \A n \in i..j : IsSpace(t[n])
        /\ Cardinality(Newlines(t, i, j)) >= 3

\* C6 as claimed: a text without marker is only trimmed, interior blank lines
\* stay as they are.
C6_StripIsTrim ==
    (tpc \in {"stripped", "restripped"} /\ NoMarker(text)) => cleaned_text = strip(text)

\* C6 amended: a text without marker gives no record; its clean text is the
\* trimmed text when the trimmed text has no white-space run with three or
\* more newlines; such runs are cut down, the words are kept as they are and
\* no such run is left.
C6_PlainText ==
    /\ (tpc # "input" /\ NoMarker(text)) => parsed = <<>>
    /\ (tpc \in {"stripped", "restripped"} /\ NoMarker(text)) =>
        /\ ~HasTripleRun(strip(text)) => cleaned_text = strip(text)
        /\ NonSpace(cleaned_text) = NonSpace(text)
        /\ ~HasTripleRun(cleaned_text)
        /\ strip(cleaned_text) = cleaned_text
        /\ Cardinality(Newlines(cleaned_text, 1, Len(cleaned_text)))
              <= Cardinality(Newlines(text, 1, Len(text)))

\* three newlines between two words become two
C6_Witness ==
    /\ tpc = "stripped"
    /\ text = <<SP, "x", NL, NL, NL, "x">>
    /\ parsed = <<>>
    /\ cleaned_text = <<"x", NL, NL, "x">>

\* ------------------------------------------------------------------------
\* C7
\* ------------------------------------------------------------------------
\* C7: the scenario text gives the one record {search, {q: EGFR}, "Looking up
\* EGFR"} and the clean text "Here are the results."; every well-formed text
\* with one invoke in a container and one reasoning block gives one record
\* whose thinking is the trimmed content of the reasoning block.
C7_EndToEnd ==
    /\ (tpc # "input" /\ text = Scenario) =>
        parsed = <<[function_name |-> "search",
                    parameters |-> <<(<<"q", <<"EGFR">>>>)>>,
                    thinking |-> <<"Looking up EGFR">>]>>
    /\ (tpc \in {"stripped", "restripped"} /\ text = Scenario) =>
        cleaned_text = <<"Here are the results.">>
    /\ (tpc # "input" /\ text \in WellFormedTexts) =>
        /\ Len(parsed) = 1
        /\ parsed[1].function_name = InvokeName(text[Find(text, InvokeOpen, 1)])
        /\ parsed[1].thinking # None
        /\ parsed[1].thinking =
              strip(SubSeq(text, Find(text, {TO}, 1) + 1, Find(text, {TC}, 1) - 1))
    /\ (tpc \in {"stripped", "restripped"} /\ text \in WellFormedTexts) =>
        \A n \in 1..Len(cleaned_text) : cleaned_text[n] \in {"x", NL, SP, "Here are the results."}

C7_Witness ==
    /\ tpc = "stripped"
    /\ text = Scenario
    /\ Len(parsed) = 1
    /\ parsed[1].thinking = <<"Looking up EGFR">>
    /\ cleaned_text = <<"Here are the results.">>

\* ------------------------------------------------------------------------
\* C8
\* ------------------------------------------------------------------------
\* the opening markers of t that are followed by no closing marker
Unterminated(t) ==
    {i \in 1..Len(t) : t[i] \in {FO, TO} /\ \A n \in (i + 1)..Len(t) : t[n] \notin {FC, TC}}

IsSuffix(a, b) == Len(a) <= Len(b) /\ SubSeq(b, Len(b) - Len(a) + 1, Len(b)) = a

\* t starts with an opening marker, followed by one well-formed block of the
\* same kind, and holds no other marker of the two kinds
OpenerBeforeBlock(t, open, close) ==
    \E k, j \in 1..Len(t) :
        /\ 1 < k /\ k < j
        /\ t[1] = open /\ t[k] = open /\ t[j] = close
        /\ \A n \in 2..Len(t) : n \notin {k, j} => ~HasLt(t[n])

NamesIn(t) ==
    LET opens == SelectSeq(t, LAMBDA c : c \in InvokeOpen)
    IN  [n \in 1..Len(opens) |-> InvokeName(opens[n])]

FunctionNames(records) == [n \in 1..Len(records) |-> records[n].function_name]

\* the parts of a nested text: before the inner container, inside it, and
\* between the two closing markers
InnerOpen(t) == Find(t, {FO}, 2)
FirstClose(t) == Find(t, {FC}, 1)
SecondClose(t) == Find(t, {FC}, FirstClose(t) + 1)
BeforeInner(t) == SubSeq(t, 2, InnerOpen(t) - 1)
InsideInner(t) == SubSeq(t, InnerOpen(t) + 1, FirstClose(t) - 1)
AfterInner(t) == SubSeq(t, FirstClose(t) + 1, SecondClose(t) - 1)

\* C9 as claimed: the invokes written inside the nested container yield no
\* record.
C9_NestedIgnored ==
    (tpc # "input" /\ text \in NestedTexts) =>
        FunctionNames(parsed) = NamesIn(BeforeInner(text))

\* C9 amended: the span ends at the first closing marker and the inner
\* opening marker is ordinary text in it, so the invokes before the first
\* closing marker, those inside the nested container included, yield
\* records; the invokes after the first closing marker yield none.
C9_NestedUpToFirstClose ==
    (tpc # "input" /\ text \in NestedTexts) =>
        FunctionNames(parsed) = NamesIn(BeforeInner(text)) \o NamesIn(InsideInner(text))

C9_Witness ==
    /\ tpc = "parsed"
    /\ text = <<FO, IOf, IC, FO, IOg, POa, "1", PC, IC, FC, IOf, IC, FC>>
    /\ FunctionNames(parsed) = <<"f", "g">>
    /\ parsed[2].parameters = <<(<<"a", <<"1">>>>)>>

\* ------------------------------------------------------------------------
\* C10
\* ------------------------------------------------------------------------
\* this step is the script run for a submitted input whose dedup key is the
\* key of the input being processed, with is_processing set
DuplicateRun ==
    /\ spc \in {"idle", "raised", "interrupted"}
    /\ event'.type = "submit"
    /\ is_processing
    /\ event'.input.key = last_processed_input

\* C10: the script run for an input whose dedup key equals the key of the
\* input being processed, while is_processing is true, changes nothing: the
\* turn list keeps its length, the transport is not called and no tool-call
\* group is recorded.
C10_DuplicateIgnored ==
    [][DuplicateRun =>
          /\ messages' = messages
          /\ Len(messages') = Len(messages)
          /\ calls' = calls
          /\ spc' = "idle"
          /\ tool_calls' = tool_calls
          /\ prompts_w_tools' = prompts_w_tools
          /\ last_processed_input' = last_processed_input
          /\ is_processing' = is_processing]_vars

\* the input was submitted again during its transport call; after the run
\* for the second submission there is one user turn, one assistant turn and
\* one call
C10_Witness ==
    /\ spc = "idle"
    /\ event.type = "submit"
    /\ event.input.key = last_processed_input
    /\ is_processing
    /\ calls = 1
    /\ Len(messages) = 2
    /\ messages[1].role = "user"
    /\ messages[2].role = "assistant"

\* ------------------------------------------------------------------------
\* C11
\* ------------------------------------------------------------------------
\* this step is the script run for an input submitted between two runs, by
\* the chat input or by a suggestion button
SubmissionRun == dpc = "rest" /\ demo_event'.type \in {"chat", "suggestion"}

\* this step belongs to a run of the executing branch during which a
\* suggestion button was clicked
SubmissionDuringExecuting == dpc # "rest" /\ (demo_request # NoDemoEvent \/ demo_request' # NoDemoEvent)

\* C11: an input submitted in idle or complete is accepted and moves the
\* session to awaiting_approval, or to executing when auto_approve is set;
\* an input submitted in awaiting_approval or executing, by the chat input or
\* by a suggestion button, changes neither the pending input, nor the steps,
\* nor the state.
C11_SubmissionTransition ==
    [][/\ SubmissionRun /\ state \in {"idle", "complete"} =>
             /\ current_query' = demo_event'.prompt
             /\ state' = IF auto_approve THEN "executing" ELSE "awaiting_approval"
       /\ SubmissionRun /\ state \in {"awaiting_approval", "executing"} =>
             /\ current_query' = current_query
             /\ agent_steps' = agent_steps
             /\ state' = state
       /\ SubmissionDuringExecuting /\ state = "executing" /\ dpc # "completed" =>
             /\ current_query' = current_query
             /\ state' = state]_vars

\* ------------------------------------------------------------------------
\* C12
\* ------------------------------------------------------------------------
\* this step accepts an input: the run for an input submitted between two
\* runs, or the run after st.rerun() of line 269 for a suggestion clicked
\* during the executing branch
AcceptedRun ==
    \/ SubmissionRun
    \/ dpc = "completed" /\ Len(steps) = Len(agents) /\ demo_request # NoDemoEvent

\* C12 as claimed: right after an input is accepted the session holds it as
\* the pending input and every seeded step has status pending.
C12_SeededPending ==
    [][AcceptedRun =>
          /\ current_query' = demo_event'.prompt
          /\ agent_steps' # <<>>
          /\ \A i \in DOMAIN agent_steps' : agent_steps'[i].status = "pending"]_vars

\* C12: right after an input is accepted the session holds it as the pending
\* input; the seeded steps are the step "Plan created", already completed,
\* followed by one step per agent of the plan, each pending; none is running.
C12_SeededPlan ==
    [][AcceptedRun =>
          /\ current_query' = demo_event'.prompt
          /\ Len(agent_steps') = 1 + Len(AGENT_PLAN)
          /\ agent_steps'[1] = [name |-> "Plan created", status |-> "completed",
                                result |-> <<"Execution plan ready">>]
          /\ \A i \in 2..Len(agent_steps') :
                 /\ agent_steps'[i].name = AGENT_PLAN[i - 1].name
                 /\ agent_steps'[i].status = "pending"]_vars

\* an input typed into the chat input has just been accepted and waits for
\* approval with its seeded steps
C12_Witness ==
    /\ dpc = "rest"
    /\ state = "awaiting_approval"
    /\ demo_event.type = "chat"
    /\ current_query = demo_event.prompt
    /\ Len(agent_steps) = 4
    /\ agent_steps[1].status = "completed"
    /\ agent_steps[4].status = "pending"

\* ------------------------------------------------------------------------
\* C13
\* ------------------------------------------------------------------------
\* this step is the run for a click on the button named by type
ButtonRun(type) == dpc = "rest" /\ demo_event'.type = type

\* C13: the session enters executing only by the run for a click on Approve
\* in awaiting_approval or by the acceptance of an input while auto_approve
\* is set; a click on Approve happens only in awaiting_approval, leads to
\* executing and changes neither the pending input nor the turn list; ticking
\* auto_approve in awaiting_approval leaves the session in awaiting_approval.
C13_ExecutionGate ==
    [][/\ state # "executing" /\ state' = "executing" =>
             \/ ButtonRun("approve") /\ state = "awaiting_approval"
             \/ AcceptedRun /\ auto_approve
       /\ ButtonRun("approve") =>
             /\ state = "awaiting_approval"
             /\ state' = "executing"
             /\ dpc' = "branch"
             /\ current_query' = current_query
             /\ demo_messages' = demo_messages
       /\ ButtonRun("toggle") /\ state = "awaiting_approval" =>
             /\ auto_approve' = ~auto_approve
             /\ state' = "awaiting_approval"
             /\ dpc' = "rest"
             /\ current_query' = current_query]_vars

\* the plan has just been approved, with auto_approve off
C13_Witness ==
    /\ state = "executing"
    /\ dpc = "branch"
    /\ demo_event.type = "approve"
    /\ ~auto_approve
    /\ current_query # <<>>

\* ------------------------------------------------------------------------
\* C14
\* ------------------------------------------------------------------------
\* C14: a click on Cancel happens in awaiting_approval and leaves the session
\* idle with no pending input, no step and the turn list as it was; from idle
\* the session leaves only by the acceptance of a newly submitted input, and a
\* session that awaits approval or executes holds a pending input.
C14_CancelAwaiting ==
    [][/\ ButtonRun("cancel") =>
             /\ state = "awaiting_approval"
             /\ state' = "idle"
             /\ dpc' = "rest"
             /\ current_query' = <<>>
             /\ agent_steps' = <<>>
             /\ demo_messages' = demo_messages
       /\ state = "idle" /\ state' # "idle" =>
             /\ AcceptedRun
             /\ current_query' = demo_event'.prompt
       /\ state' \in {"awaiting_approval", "executing"} => current_query' # <<>>]_vars

\* a plan submitted after a completed turn has just been cancelled
C14_Witness ==
    /\ state = "idle"
    /\ dpc = "rest"
    /\ demo_event.type = "cancel"
    /\ current_query = <<>>
    /\ agent_steps = <<>>
    /\ Len(demo_messages) = 2

\* ------------------------------------------------------------------------
\* C15
\* ------------------------------------------------------------------------
AllCompleted(list) ==
    /\ Len(list) = Len(agents)
    /\ \A i \in DOMAIN list :
           /\ list[i].name = agents[i].name
           /\ list[i].status = "completed"
           /\ list[i].result = agents[i].result

LastUserTurn(msgs) == Max({0} \cup {k \in 1..Len(msgs) : msgs[k].role = "user"})

\* this step is the callback of the run for a click on Stop, made during the
\* transport call or on the page that a raised run has left
StopRun == spc \in {"interrupted", "raised"} /\ spc' = "stopping"

\* C16: the run for a click on Stop made while a turn is processed removes
\* the user turn of that turn, so that the turn list is what it was before
\* the submission, clears the dedup key and is_processing; a step that
\* shortens the turn list without a reset removes the last turn only, and
\* that turn is a user turn.
C16_CancelExecuting ==
    [][/\ StopRun /\ is_processing =>
             /\ LastUserTurn(messages) > 0
             /\ messages' = SubSeq(messages, 1, LastUserTurn(messages) - 1)
             /\ last_processed_input' = NoKey
             /\ is_processing' = FALSE
       /\ Len(messages') < Len(messages) /\ thread_id' = thread_id =>
             /\ messages' = SubSeq(messages, 1, Len(messages) - 1)
             /\ messages[Len(messages)].role = "user"]_vars

\* ------------------------------------------------------------------------
\* C17
\* ------------------------------------------------------------------------
\* C17: the step in which the transport call returns after a click on Stop
\* records no assistant turn, no tool-call group and no prompt.
C17_ResultDiscarded ==
    [][spc = "calling" /\ rerun_request.type = "stop" =>
          /\ messages' = messages
          /\ tool_calls' = tool_calls
          /\ prompts_w_tools' = prompts_w_tools]_vars

\* ------------------------------------------------------------------------
\* C18
\* ------------------------------------------------------------------------
\* this step is the run for a click on Reset
ResetRun ==
    \/ spc \in {"idle", "raised"} /\ event'.type = "reset"
    \/ spc = "interrupted" /\ rerun_request.type = "reset"

\* C18: the run for a click on Reset leaves no run under way, an empty turn
\* list, no tool-call group and no prompt, no dedup key, is_processing and
\* stop false and a thread identifier that was not in use before, so that the
\* guard accepts every input, the last processed one included; no other step
\* changes the thread identifier.
C18_Reset ==
    [][/\ ResetRun =>
             /\ spc' = "idle"
             /\ messages' = <<>>
             /\ tool_calls' = <<>>
             /\ prompts_w_tools' = <<>>
             /\ last_processed_input' = NoKey
             /\ is_processing' = FALSE
             /\ stop' = FALSE
             /\ thread_id' > thread_id
             /\ \A inp \in Inputs : inp.key # last_processed_input' /\ ~stop'
       /\ thread_id' # thread_id => ResetRun]_vars

\* after a turn for "p1" and a reset, "p1" has been submitted again and is
\* being processed under the new thread identifier
C18_Witness ==
    /\ thread_id = 2
    /\ calls = 2
    /\ spc = "calling"
    /\ event.type = "submit"
    /\ event.input.key = "chat:p1"
    /\ last_processed_input = "chat:p1"
    /\ messages = <<user_message("p1")>>

\* ------------------------------------------------------------------------
\* C19
\* ------------------------------------------------------------------------
\* list b has list a as a prefix, up to the status and result of the steps
PrefixUpToStatus(a, b) ==
    /\ Len(a) <= Len(b)
    /\ \A i \in 1..Len(a) : b[i].name = a[i].name

ReturnNoText == spc = "calling" /\ spc' # "calling" /\ text_contents' = Returned(<<>>)

ReturnRun == spc = "calling" /\ spc' # "calling" /\ xpc' = "done"

\* a message item whose content array is absent or empty, or whose first
\* content element has no text
NoTextItem(item) ==
    /\ item.type = <<"message">>
    /\ \/ "content" \notin DOMAIN item
       \/ item.content = <<>>
       \/ "text" \notin DOMAIN item.content[1]

\* the last text of the envelope is a text that the stripper empties
StripsToEmpty(contents) ==
    /\ ~contents.raised
    /\ Len(contents.value) > 0
    /\ contents.value[Len(contents.value)] # None
    /\ strip_tool_call_tags(contents.value[Len(contents.value)]) = <<>>

\* C21: when the transport call returns an envelope with a message item
\* whose content array is empty or absent or whose first content element has
\* no text, or an envelope whose last text strips to the empty text, the run
\* raises no exception and appends the fixed fallback message as the
\* assistant turn.
C21_EmptyContent ==
    [][/\ ReturnRun =>
          ((\/ \E i \in 1..Len(response_json') : NoTextItem(response_json'[i])
            \/ StripsToEmpty(text_contents'))
           => /\ ~text_contents'.raised
              /\ messages' = Append(messages, assistant_message(Fallback)))]_vars

\* ------------------------------------------------------------------------
\* C22
\* ------------------------------------------------------------------------
\* this step is the transport call of a turn raising
TransportFails == spc = "calling" /\ spc' # "calling" /\ xpc' = "input"

\* C22: when the transport call of a turn raises, the run either records an
\* assistant turn or leaves neither the user turn nor the dedup key of the
\* input behind; after it is_processing is false and the guard accepts the
\* same input again.
C22_TransportFailure ==
    [][TransportFails =>
          /\ \/ /\ Len(messages') = Len(messages) + 1
                /\ messages'[Len(messages')].role = "assistant"
             \/ /\ messages' = SubSeq(messages, 1, Len(messages) - 1)
                /\ last_processed_input' # input_dict.key
          /\ is_processing' = FALSE
          /\ input_dict.key # last_processed_input'
          /\ ~stop']_vars

\* ------------------------------------------------------------------------
\* C23
\* ------------------------------------------------------------------------
\* the user turns of a turn list that have no assistant turn after them
Awaiting(msgs) ==
    {k \in 1..Len(msgs) :
        /\ msgs[k].role = "user"
        /\ \A j \in (k + 1)..Len(msgs) : msgs[j].role # "assistant"}

\* no two turns in a row have the same role
NoTwoInARow(msgs) == \A k \in 1..(Len(msgs) - 1) : msgs[k].role # msgs[k + 1].role

\* user and assistant turns alternate, from a user turn to an assistant turn
Alternates(msgs) ==
    /\ NoTwoInARow(msgs)
    /\ Len(msgs) > 0 => msgs[1].role = "user" /\ msgs[Len(msgs)].role = "assistant"

\* C23: in every state the turn list has at most one user turn without an
\* assistant turn after it, and that turn is the last one; no two turns in a
\* row have the same role; and while no turn is processed and no cancel is
\* in progress the list is empty or alternates from a user turn to an
\* assistant turn.  The same holds of the turn list of the approval flow.
C23_AtMostOneAwaiting ==
    /\ Awaiting(messages) \subseteq {Len(messages)}
    /\ NoTwoInARow(messages)
    /\ ~is_processing /\ ~stop => Alternates(messages)
    /\ Awaiting(demo_messages) \subseteq {Len(demo_messages)}
    /\ NoTwoInARow(demo_messages)
    /\ state # "executing" => Alternates(demo_messages)

\* ------------------------------------------------------------------------
\* C24
\* ------------------------------------------------------------------------
\* the texts of the spans of s
SpanTexts(s, spans) == [k \in 1..Len(spans) |-> SubSeq(s, spans[k][1], spans[k][2])]

\* the reasoning-block spans that parse_tool_calls reads: those of the text
ParserThinkingSpans(s) == SpanTexts(s, lazy_spans(s, {TO}, TC, 1))

\* the reasoning-block spans that strip_tool_call_tags removes: those of the
\* text without its container spans
StripperThinkingSpans(s) ==
    SpanTexts(remove_function_calls(s), lazy_spans(remove_function_calls(s), {TO}, TC, 1))

\* the words of a text: its lexemes that are neither tags nor white space
Words(s) == {s[k] : k \in {n \in 1..Len(s) : ~HasLt(s[n]) /\ ~IsSpace(s[n])}}

\* the positions of s inside the reasoning-block spans that the parser reads
InThinking(s) ==
    LET spans == lazy_spans(s, {TO}, TC, 1)
    IN  {n \in 1..Len(s) : \E k \in 1..Len(spans) : spans[k][1] <= n /\ n <= spans[k][2]}

\* no word of a reasoning block of s stands outside the reasoning blocks too
DistinctReasoningWords(s) ==
    \A n \in InThinking(s) : \A m \in (1..Len(s)) \ InThinking(s) : s[n] # s[m]

\* the words of the reasoning texts that the parser has bound to records
BoundWords(records) ==
    UNION {Words(records[k].thinking) : k \in {n \in 1..Len(records) : records[n].thinking # None}}

\* C24: for every text, the reasoning-block spans that the parser reads are
\* the spans that the stripper removes, and, when the words of the reasoning
\* blocks are words of no other part of the text, no word of a reasoning
\* text that the parser has bound to a record is left in the clean text.
C24_SameSpans ==
    tpc \in {"stripped", "restripped"} =>
        /\ ParserThinkingSpans(text) = StripperThinkingSpans(text)
        /\ DistinctReasoningWords(text) => BoundWords(parsed) \cap Words(cleaned_text) = {}

\* ------------------------------------------------------------------------
\* C25
\* ------------------------------------------------------------------------
\* at most one step of the list is running, and the steps before a running
\* step are completed
OneRunningLast(list) ==
    /\ Cardinality({k \in 1..Len(list) : list[k].status = "running"}) <= 1
    /\ \A k \in 1..Len(list) :
          list[k].status = "running" => \A j \in 1..(k - 1) : list[j].status = "completed"

\* the completed steps of the list are the same steps of the next list
CompletedStay ==
    \A k \in 1..Len(agent_steps) :
        agent_steps[k].status = "completed" =>
            k <= Len(agent_steps') /\ agent_steps'[k] = agent_steps[k]

\* this step goes on with the turn of the pending input: the approval, or
\* a step of the executing branch that no widget event interrupts and that
\* accepts no suggestion clicked before
SameTurn ==
    \/ dpc = "rest" /\ state = "awaiting_approval" /\ state' = "executing"
    \/ /\ dpc \in {"branch", "running", "completed"}
       /\ demo_request = NoDemoEvent
       /\ demo_request' = NoDemoEvent
       /\ trigger_query' = trigger_query

\* the completion of the running step, which no widget event interrupts
Completion == dpc = "running" /\ dpc' = "completed"

\* the completion marks the running step, and no other, completed and gives
\* it a result
MarksOne ==
    /\ Len(agent_steps') = Len(agent_steps)
    /\ agent_steps[Len(agent_steps)].status = "running"
    /\ agent_steps'[Len(agent_steps)].status = "completed"
    /\ agent_steps'[Len(agent_steps)].name = agent_steps[Len(agent_steps)].name
    /\ agent_steps'[Len(agent_steps)].result # None
    /\ agent_steps'[Len(agent_steps)].result # agent_steps[Len(agent_steps)].result
    /\ \A k \in 1..(Len(agent_steps) - 1) : agent_steps'[k] = agent_steps[k]

MessageItems(env) == {n \in 1..Len(env) : env[n].type = <<"message">>}

\* every message item of the envelope has a first content element with a text
AllWithText(env) == \A n \in MessageItems(env) : ~NoTextItem(env[n])

\* the text of the last message item of the envelope
LastMessageText(env) == env[Max(MessageItems(env))].content[1].text

\* C26: when the transport call returns an envelope with at least one
\* message item, all of them with a text, the assistant turn that the run
\* appends is the clean text of the last message item, and the tool-call
\* group that it records is made of the records of that text (none when
\* that text has no record).
C26_LastMessageOnly ==
    [][ReturnRun /\ MessageItems(response_json') # {} /\ AllWithText(response_json') =>
          /\ messages' = Append(messages,
                  assistant_message(strip_tool_call_tags(LastMessageText(response_json'))))
          /\ tool_calls' =
                  IF parse_tool_calls(LastMessageText(response_json')) # <<>>
                  THEN Append(tool_calls, parse_tool_calls(LastMessageText(response_json')))
                  ELSE tool_calls]_vars

\* ------------------------------------------------------------------------
\* C27
\* ------------------------------------------------------------------------
\* this step is the script run for a submitted input
SubmitRun == spc \in {"idle", "raised", "interrupted"} /\ event'.type = "submit"

\* C27: the script run for a submitted input whose dedup key equals the last
\* processed key changes nothing, whatever is_processing is: no user turn,
\* no transport call, no record; and the last processed key changes only in
\* the run that processes an input with another key, in the callback of the
\* Stop button and in the run for Reset.
C27_SameKeyIgnored ==
    [][/\ SubmitRun /\ event'.input.key = last_processed_input =>
             /\ ~accepted'
             /\ spc' = "idle"
             /\ messages' = messages
             /\ calls' = calls
             /\ tool_calls' = tool_calls
             /\ prompts_w_tools' = prompts_w_tools
             /\ last_processed_input' = last_processed_input
       /\ last_processed_input' # last_processed_input =>
             \/ /\ SubmitRun /\ accepted'
                /\ event'.input.key # last_processed_input
                /\ last_processed_input' = event'.input.key
             \/ StopRun /\ last_processed_input' = NoKey
             \/ ResetRun /\ last_processed_input' = NoKey]_vars

\* a turn has completed with is_processing false, and the run for a second
\* submission of its input has been ignored
C27_Witness ==
    /\ spc = "idle"
    /\ ~is_processing
    /\ event.type = "submit"
    /\ ~accepted
    /\ event.input.key = last_processed_input
    /\ calls = 1
    /\ Len(messages) = 2
    /\ messages[1] = user_message(event.input.prompt)
    /\ messages[2].role = "assistant"

\* ------------------------------------------------------------------------
\* C28
\* ------------------------------------------------------------------------
\* C28: when the run for a click on Stop has ended, no run is under way,
\* stop and is_processing are false and the guard accepts every input, the
\* cancelled one included; and the run for the input submitted next
\* processes it: it appends its user turn and calls the transport.
C28_AcceptsAfterCancel ==
    [][/\ spc = "stopping" =>
             /\ spc' = "idle"
             /\ ~stop'
             /\ ~is_processing'
             /\ \A inp \in Inputs : inp.key # last_processed_input'
       /\ SubmitRun /\ event.type = "stop" /\ Rendered(event'.input) = event'.input =>
             /\ accepted'
             /\ spc' = "calling"
             /\ messages' = Append(messages, user_message(event'.input.prompt))
             /\ calls' = calls + 1]_vars

\* the turn for "p2" was cancelled during its transport call, which
\* returned "x"; "p2" has been typed again, without a reset, and is being
\* processed
C28_Witness ==
    /\ thread_id = 1
    /\ calls = 2
    /\ spc = "calling"
    /\ accepted
    /\ ~stop
    /\ messages = <<user_message("p2"), assistant_message(<<"x">>), user_message("p2")>>
    /\ last_processed_input = "chat:p2"

\* ------------------------------------------------------------------------
\* C29
\* ------------------------------------------------------------------------
\* as many prompts as tool-call groups, and no group is empty
Paired(groups, prompts) ==
    /\ Len(groups) = Len(prompts)
    /\ \A k \in 1..Len(groups) : groups[k] # <<>>

\* this step appends the records of the last text of the envelope, of which
\* there is at least one, as a group, and the prompt of the turn that the
\* run answers
AppendsGroup ==
    /\ ReturnRun
    /\ ~text_contents'.raised
    /\ Len(text_contents'.value) > 0
    /\ parse_tool_calls(text_contents'.value[Len(text_contents'.value)]) # <<>>
    /\ tool_calls' =
           Append(tool_calls, parse_tool_calls(text_contents'.value[Len(text_contents'.value)]))
    /\ prompts_w_tools' = Append(prompts_w_tools, input_dict.prompt)
    /\ messages[Len(messages)] = user_message(input_dict.prompt)

\* C29: in every state there are as many recorded prompts as recorded
\* tool-call groups and no group is empty; the two lists change only
\* together: the run that gets a response with a tool call appends the
\* group and the prompt of its turn, and the run for Reset empties both; a
\* run whose response has no tool call changes neither.
C29_GroupsAndPrompts ==
    [][/\ Paired(tool_calls, prompts_w_tools)
       /\ Paired(tool_calls', prompts_w_tools')
       /\ tool_calls' # tool_calls \/ prompts_w_tools' # prompts_w_tools =>
             \/ AppendsGroup
             \/ ResetRun /\ tool_calls' = <<>> /\ prompts_w_tools' = <<>>
       /\ ResetRun => tool_calls' = <<>> /\ prompts_w_tools' = <<>>]_vars

\* the turn for "p1" got a response without a tool call and the turn for
\* "p2" one with tool calls: one group, recorded for "p2"
C29_Witness ==
    /\ spc = "idle"
    /\ Len(messages) = 4
    /\ messages[1] = user_message("p1")
    /\ messages[3] = user_message("p2")
    /\ Len(tool_calls) = 1
    /\ tool_calls[1] # <<>>
    /\ prompts_w_tools = <<"p2">>

\* ------------------------------------------------------------------------
\* C30
\* ------------------------------------------------------------------------
\* C30: every accepted submission terminates: when the transport call
\* returns, a session that is processing a turn is eventually not processing
\* any more.
C30_Terminates == is_processing ~> ~is_processing

====
